---- MODULE Spec2Model ----
(***************************************************************************)
(* camera-backup: the S3 uploader (src/src/camera_backup/uploader.py).     *)
(*                                                                         *)
(* The uploader is one thread: run_continuous scans the storage root,      *)
(* uploads every completed segment, sleeps, and repeats.  The environment  *)
(* (clock, recorder, other processes touching the directory tree, the      *)
(* remote store, the operator) acts between the uploader's steps.          *)
(*                                                                         *)
(* Spec follows main of the uploader from the construction of S3Uploader   *)
(* through the poll loop.  KeySpec follows the computation of the remote   *)
(* key alone, on any two files.  GenSpec follows generate_services         *)
(* (src/src/camera_backup/generate_services.py).                           *)
(***************************************************************************)
EXTENDS Integers, Sequences, FiniteSets, TLC

(***************************************************************************)
(* Program constants.                                                      *)
(***************************************************************************)
\* uploader.py:48  `time.time() - mod_time > 300`
COMPLETENESS_THRESHOLD == 300
\* uploader.py:104 `time.sleep(60)`
BACKOFF_SECONDS == 60

(***************************************************************************)
(* Bounds of the model.                                                    *)
(***************************************************************************)
\* poll cycles (scans) the loop is followed through
MaxCycles == 2
\* steps the environment takes while the loop runs: a second passing during
\* an upload, a recorder write, a file removed, the root becoming unreadable
MaxEnvEvents == 1

\* configured values of upload.check_interval (test_uploader.py:26)
CheckIntervals == {300}
\* wall clock at the start of run_continuous
StartTime == 100000

(***************************************************************************)
(* Names and paths.  A name is a sequence of one-character strings, a path *)
(* is the sequence of names below the storage root.                        *)
(***************************************************************************)
Code(c) ==
    CASE c = "-" -> 45 [] c = "." -> 46 [] c = "/" -> 47
      [] c = "1" -> 49 [] c = "2" -> 50 [] c = "4" -> 52 [] c = "9" -> 57
      [] c = "a" -> 97 [] c = "b" -> 98 [] c = "m" -> 109 [] c = "n" -> 110
      [] c = "p" -> 112 [] c = "r" -> 114 [] c = "s" -> 115 [] c = "t" -> 116
      [] c = "u" -> 117 [] c = "x" -> 120

Mp4 == <<".", "m", "p", "4">>
CamA == <<"a">>
CamAB == <<"a", "-", "b">>
Seg1 == <<"1">> \o Mp4
Seg2 == <<"2">> \o Mp4

\* the segment files the recorder writes: they come and go
Segs == {<<CamA, Seg1>>, <<CamA, Seg2>>, <<CamAB, Seg1>>}

\* the rest of the tree under the storage root, always there and old
CameraDirs == {<<CamA>>, <<CamAB>>}
NestedDirs == {<<CamA, <<"s", "u", "b">>>>}
OtherFiles == {<<<<"r">> \o Mp4>>,                         \* a file at root level
               <<CamA, <<"n", ".", "t", "x", "t">>>>,      \* not a video
               <<CamA, <<"s", "u", "b">>, <<"9">> \o Mp4>>} \* nested video
Dirs == CameraDirs \cup NestedDirs
OldTime == StartTime - 1000

\* str/tuple comparison of Python: lexicographic, by code point
RECURSIVE NameLess(_, _)
NameLess(a, b) ==
    IF b = <<>> THEN FALSE
    ELSE IF a = <<>> THEN TRUE
    ELSE IF Code(Head(a)) # Code(Head(b)) THEN Code(Head(a)) < Code(Head(b))
    ELSE NameLess(Tail(a), Tail(b))

\* a path written out, its names joined by "/"
RECURSIVE JoinPath(_)
JoinPath(p) ==
    IF Len(p) = 1 THEN p[1] ELSE p[1] \o <<"/">> \o JoinPath(Tail(p))

\* faulty variant: paths ordered as the strings they are written as
PathLess_AsString(p, q) == NameLess(JoinPath(p), JoinPath(q))

\* pathlib orders paths by their parts
RECURSIVE PathLess(_, _)
PathLess(p, q) ==
    IF q = <<>> THEN FALSE
    ELSE IF p = <<>> THEN TRUE
    ELSE IF Head(p) # Head(q) THEN NameLess(Head(p), Head(q))
    ELSE PathLess(Tail(p), Tail(q))

RECURSIVE Insert(_, _)
Insert(p, s) ==
    IF s = <<>> THEN <<p>>
    ELSE IF PathLess(p, Head(s)) THEN <<p>> \o s
    ELSE <<Head(s)>> \o Insert(p, Tail(s))

\* sorted(segments), uploader.py:51
RECURSIVE Sorted(_)
Sorted(s) == IF s = <<>> THEN <<>> ELSE Insert(Head(s), Sorted(Tail(s)))

Range(s) == {s[i] : i \in 1..Len(s)}

\* every order a set can be enumerated in
Enumerations(S) ==
    {e \in [1..Cardinality(S) -> S] : \A x \in S : \E i \in DOMAIN e : e[i] = x}

Parent(p) == SubSeq(p, 1, Len(p) - 1)
BaseName(p) == p[Len(p)]

\* fnmatch of "*.mp4": the name ends in .mp4
GlobMp4(name) ==
    /\ Len(name) >= Len(Mp4)
    /\ SubSeq(name, Len(name) - Len(Mp4) + 1, Len(name)) = Mp4

AllFiles == Segs \cup OtherFiles
IsDir(p) == p \in Dirs

(***************************************************************************)
(* The remote key, uploader.py:55-60.                                      *)
(***************************************************************************)
\* seconds the zone of the process is ahead of UTC: datetime.fromtimestamp
\* converts to local time
UtcOffset == 3600

\* the civil date of day number z (days since 1970-01-01)
CivilFromDays(z) ==
    LET s   == z + 719468
        era == s \div 146097
        doe == s - era * 146097
        yoe == (doe - doe \div 1460 + doe \div 36524 - doe \div 146096) \div 365
        doy == doe - (365 * yoe + yoe \div 4 - yoe \div 100)
        mp  == (5 * doy + 2) \div 153
        m   == IF mp < 10 THEN mp + 3 ELSE mp - 9
    IN  [year  |-> yoe + era * 400 + (IF m <= 2 THEN 1 ELSE 0),
         month |-> m,
         day   |-> doy - (153 * mp + 2) \div 5 + 1]

\* datetime.fromtimestamp(st_mtime), uploader.py:59
fromtimestamp(t) == CivilFromDays((t + UtcOffset) \div 86400)

DigitChar(d) ==
    CASE d = 0 -> "0" [] d = 1 -> "1" [] d = 2 -> "2" [] d = 3 -> "3"
      [] d = 4 -> "4" [] d = 5 -> "5" [] d = 6 -> "6" [] d = 7 -> "7"
      [] d = 8 -> "8" [] d = 9 -> "9"

\* n in decimal
RECURSIVE Decimal(_)
Decimal(n) ==
    IF n < 10 THEN <<DigitChar(n)>>
    ELSE Decimal(n \div 10) \o <<DigitChar(n % 10)>>

\* faulty variant: month and day as they are, without padding
TwoDigits_Unpadded(n) == Decimal(n)

\* %m and %d: two digits, zero-padded
TwoDigits(n) == <<DigitChar(n \div 10), DigitChar(n % 10)>>

\* date_str.strftime('%Y/%m/%d'), uploader.py:60
strftime(date) ==
    Decimal(date.year) \o <<"/">> \o TwoDigits(date.month)
        \o <<"/">> \o TwoDigits(date.day)

\* faulty variant: the key leaves the camera out
s3_key_NoCamera(local_file, st_mtime, t) ==
    strftime(fromtimestamp(st_mtime)) \o <<"/">> \o BaseName(local_file)

\* faulty variant: the date is the day of the upload
s3_key_UploadDate(local_file, st_mtime, t) ==
    BaseName(Parent(local_file)) \o <<"/">> \o strftime(fromtimestamp(t))
        \o <<"/">> \o BaseName(local_file)

\* uploader.py:55-60: f"{camera_name}/{date}/{filename}"; t, the clock at
\* the call, is not used
s3_key(local_file, st_mtime, t) ==
    BaseName(Parent(local_file)) \o <<"/">> \o strftime(fromtimestamp(st_mtime))
        \o <<"/">> \o BaseName(local_file)

(***************************************************************************)
(* State.                                                                  *)
(***************************************************************************)
VARIABLES
    now,                  \* time.time()
    files,                \* the files that exist under the storage root
    mtime,                \* st_mtime of each file
    rootOk,               \* the storage root can be listed
    remote,               \* segments the remote store holds
    startup,              \* what S3Uploader.__init__ meets: a configuration
                          \* it can load, or what is missing
    delete_after_upload,  \* upload.delete_after_upload, uploader.py:24
    check_interval,       \* upload.check_interval, uploader.py:23
    pc,                   \* where main and run_continuous are
    segments,             \* the local `segments` of run_continuous
    idx,                  \* position of the for loop in segments
    call,                 \* the current (or last) upload_file call
    exit,                 \* how run_continuous ended, if it did, where it
                          \* was then, and the last exception that reached
                          \* its try
    atScan,               \* history: what each segment was at the last scan
    scanned,              \* history: the last scan returned a list
    attempts,             \* history: upload_file calls per file, this cycle
    unlinked,             \* history: files upload_file removed, this cycle
    scanTime,             \* history: clock at the last scan
    lastSleep,            \* history: length of the last sleep
    lastCycle,            \* history: how the last finished cycle ended
    prevCycle,            \* history: lastCycle as it was at the last scan
    cycles,               \* scans started
    failed,               \* history: segments the store refused at their
                          \* last upload, complete then and not touched
                          \* since
    envEvents,            \* environment steps taken
    keyCalls,             \* two calls of upload_file followed to uploader.py:60
    config_exists,        \* generate_services: there is a file at config_path
    cameras,              \* generate_services: config['cameras']
    gen_pc,               \* generate_services: where it is
    camera_i,             \* generate_services: position of its for loop
    service_dir,          \* generate_services: the files in service_dir
    generated_services,   \* generate_services: its list of that name
    exit_status           \* generate_services: exit status, once it has ended

vars == <<now, files, mtime, rootOk, remote, startup, delete_after_upload,
          check_interval, pc, segments, idx, call, exit, atScan, scanned,
          attempts, unlinked, scanTime, lastSleep, lastCycle, prevCycle,
          cycles, failed, envEvents, keyCalls, config_exists, cameras, gen_pc,
          camera_i, service_dir, generated_services, exit_status>>

config == <<startup, delete_after_upload, check_interval>>
\* what the poll loop never touches
genVars == <<config_exists, cameras, gen_pc, camera_i, service_dir,
             generated_services, exit_status>>
aside == <<keyCalls, genVars>>

\* generate_services is not running
GenIdle ==
    /\ config_exists = FALSE
    /\ cameras = <<>>
    /\ gen_pc = "idle"
    /\ camera_i = 1
    /\ service_dir = {}
    /\ generated_services = <<>>
    /\ exit_status = <<>>
disk == <<files, mtime>>
cycleHist == <<atScan, scanned, attempts, scanTime, prevCycle, cycles>>

NotScanned == [f \in Segs |-> "absent"]
NoAttempts == [f \in AllFiles |-> 0]

NoCall == [seg |-> <<>>, statMtime |-> 0, key |-> <<>>, acked |-> FALSE,
           unlinked |-> FALSE, result |-> "none", outcome |-> "none", existsAtReturn |-> FALSE]

\* what the constructor can meet: everything in place, no file at
\* config_path (uploader.py:19), a file without a required option
\* (uploader.py:22-34), a client boto3 cannot build (uploader.py:28)
Startups == {"ok", "no_file", "no_option", "no_client"}

\* ages of the segments found on disk when the uploader starts
InitialAges == {COMPLETENESS_THRESHOLD, COMPLETENESS_THRESHOLD + 1}

Init ==
    /\ now = StartTime
    /\ \E present \in SUBSET Segs :
         /\ files = present \cup OtherFiles
         /\ \E m \in [Segs -> {StartTime - a : a \in InitialAges}] :
              mtime = [f \in AllFiles |->
                         IF f \in present THEN m[f]
                         ELSE IF f \in OtherFiles THEN OldTime ELSE 0]
    /\ rootOk = TRUE
    /\ remote = {}
    /\ startup \in Startups
    /\ delete_after_upload \in BOOLEAN
    /\ check_interval \in CheckIntervals
    /\ pc = "start"
    /\ segments = <<>>
    /\ idx = 1
    /\ call = NoCall
    /\ exit = [how |-> "running", cause |-> "none", at |-> "none"]
    /\ atScan = NotScanned
    /\ scanned = FALSE
    /\ attempts = NoAttempts
    /\ unlinked = {}
    /\ scanTime = StartTime
    /\ lastSleep = 0
    /\ lastCycle = "none"
    /\ prevCycle = "none"
    /\ cycles = 0
    /\ failed = {}
    /\ envEvents = 0
    /\ keyCalls = <<>>
    /\ GenIdle

(***************************************************************************)
(* Exceptions.                                                             *)
(***************************************************************************)
\* `except Exception` catches everything but BaseException-only classes
IsException(exc) == exc # "KeyboardInterrupt"

\* faulty variant: the loop catches the interrupt only
LoopHandler_InterruptOnly(exc) ==
    IF exc = "KeyboardInterrupt" THEN [pc |-> "stopped", how |-> "returned"]
    ELSE [pc |-> "stopped", how |-> "raised"]

\* the except clauses of run_continuous, uploader.py:99-104
LoopHandler(exc) ==
    IF exc = "KeyboardInterrupt" THEN [pc |-> "stopped", how |-> "returned"]
    ELSE IF IsException(exc) THEN [pc |-> "backoff", how |-> "running"]
    ELSE [pc |-> "stopped", how |-> "raised"]

\* an exception reaches the try of run_continuous, uploader.py:88
EscapesToLoop(exc) ==
    LET h == LoopHandler(exc) IN
    /\ pc' = h.pc
    /\ exit' = [how |-> h.how, cause |-> exc,
                at |-> IF h.pc = "stopped" THEN pc ELSE "none"]
    /\ lastCycle' = IF exc = "KeyboardInterrupt" THEN "interrupted" ELSE "aborted"

(***************************************************************************)
(* find_completed_segments, uploader.py:36-51.                             *)
(***************************************************************************)
\* faulty variant: a file exactly as old as the threshold counts as complete
IsComplete_Inclusive(mod_time, t) == t - mod_time >= COMPLETENESS_THRESHOLD

\* uploader.py:48
IsComplete(mod_time, t) == t - mod_time > COMPLETENESS_THRESHOLD

\* faulty variant: everything below d, as a recursive walk lists it
Listing_Deep(d, order) ==
    SelectSeq(order, LAMBDA p : Len(p) > Len(d) /\ SubSeq(p, 1, Len(d)) = d)

\* the entries of directory d, in the order `order` lists them
Listing(d, order) ==
    SelectSeq(order, LAMBDA p : Len(p) = Len(d) + 1 /\ Parent(p) = d)

\* the inner loop, uploader.py:44-49: glob("*.mp4"), stat, age test
ScanCamera(camera_dir, order, mt, t) ==
    SelectSeq(Listing(camera_dir, order),
              LAMBDA f : GlobMp4(BaseName(f)) /\ IsComplete(mt[f], t))

\* the outer loop, uploader.py:40-42, over the listing of the root
RECURSIVE ScanRoot(_, _, _, _)
ScanRoot(listing, order, mt, t) ==
    IF listing = <<>> THEN <<>>
    ELSE (IF IsDir(Head(listing))
          THEN ScanCamera(Head(listing), order, mt, t)
          ELSE <<>>) \o ScanRoot(Tail(listing), order, mt, t)

\* faulty variant: a failed cycle leaves the scanner returning nothing
find_completed_segments_Poisoned(order, mt, t) ==
    IF lastCycle = "aborted" THEN <<>>
    ELSE Sorted(ScanRoot(Listing(<<>>, order), order, mt, t))

find_completed_segments(order, mt, t) ==
    Sorted(ScanRoot(Listing(<<>>, order), order, mt, t))

\* the orders iterdir() and glob() may produce for the tree as it is
StaticBelow == <<<<CamA, <<"n", ".", "t", "x", "t">>>>,
                 <<CamA, <<"s", "u", "b">>>>,
                 <<CamA, <<"s", "u", "b">>, <<"9">> \o Mp4>>>>
RootEntries == CameraDirs \cup {f \in OtherFiles : Len(f) = 1}
Orders(present) ==
    {r \o StaticBelow \o e :
        r \in Enumerations(RootEntries), e \in Enumerations(present \cap Segs)}

\* every segment as a scan at time t meets it: not there, older than 300
\* seconds, exactly 300 seconds old, or younger
Seen(present, mt, t) ==
    [f \in Segs |-> IF f \notin present THEN "absent"
                    ELSE IF t - mt[f] > 300 THEN "complete"
                    ELSE IF t - mt[f] = 300 THEN "threshold"
                    ELSE "young"]

(***************************************************************************)
(* run_continuous, uploader.py:83-104, and upload_file, uploader.py:53-81. *)
(***************************************************************************)
\* faulty variant: a failed construction is passed over and the loop starts
Construct_GoesOn ==
    /\ pc = "start"
    /\ pc' = "scan"
    /\ UNCHANGED <<now, disk, rootOk, remote, config, aside, segments, idx,
                   call, exit, cycleHist, unlinked, lastSleep, lastCycle,
                   failed, envEvents>>

\* main, uploader.py:114-115: S3Uploader(args.config), then run_continuous;
\* whatever __init__ raises leaves main before run_continuous is called
Construct ==
    /\ pc = "start"
    /\ pc' = IF startup = "ok" THEN "scan" ELSE "failed"
    /\ UNCHANGED <<now, disk, rootOk, remote, config, aside, segments, idx,
                   call, exit, cycleHist, unlinked, lastSleep, lastCycle,
                   failed, envEvents>>

StartCycle ==
    /\ cycles' = cycles + 1
    /\ prevCycle' = lastCycle
    /\ scanTime' = now
    /\ atScan' = Seen(files, mtime, now)
    /\ attempts' = NoAttempts
    /\ unlinked' = {}

\* uploader.py:89, and 94-97 when nothing was found
Scan ==
    /\ pc = "scan"
    /\ cycles < MaxCycles
    /\ StartCycle
    /\ scanned' = rootOk
    /\ IF ~rootOk
       THEN /\ EscapesToLoop("OSError")
            /\ UNCHANGED <<segments, idx>>
       ELSE \E order \in Orders(files) :
              /\ segments' = find_completed_segments(order, mtime, now)
              /\ idx' = 1
              /\ pc' = IF segments' = <<>> THEN "sleep" ELSE "call"
              /\ lastCycle' = IF segments' = <<>> THEN "ok" ELSE lastCycle
              /\ UNCHANGED exit
    /\ UNCHANGED <<now, disk, rootOk, remote, config, aside, call, lastSleep,
                   failed, envEvents>>

\* uploader.py:44-47: a file listed by glob() is gone when stat() is called
ScanRace ==
    /\ pc = "scan"
    /\ cycles < MaxCycles
    /\ rootOk
    /\ envEvents < MaxEnvEvents
    /\ StartCycle
    /\ scanned' = FALSE
    /\ \E f \in files \cap Segs :
         /\ files' = files \ {f}
         /\ mtime' = [mtime EXCEPT ![f] = 0]
         /\ failed' = failed \ {f}
    /\ envEvents' = envEvents + 1
    /\ EscapesToLoop("FileNotFoundError")
    /\ UNCHANGED <<now, rootOk, remote, config, aside, segments, idx, call,
                   lastSleep>>

\* faulty variant: the loop moves on while the call is still in flight
Returns_InBackground(c, after) ==
    /\ call' = [c EXCEPT !.result = "pending"]
    /\ idx' = idx + 1
    /\ pc' = IF idx + 1 > Len(segments) THEN "sleep" ELSE "call"
    /\ lastCycle' = IF idx + 1 > Len(segments) THEN "ok" ELSE lastCycle
    /\ UNCHANGED exit

\* faulty variant: the loop passes over the segment after the one just handled
Returns_SkipsNext(c, after) ==
    /\ call' = [c EXCEPT !.existsAtReturn = c.seg \in after]
    /\ idx' = idx + 2
    /\ pc' = IF idx + 2 > Len(segments) THEN "sleep" ELSE "call"
    /\ lastCycle' = IF idx + 2 > Len(segments) THEN "ok" ELSE lastCycle
    /\ UNCHANGED exit

\* upload_file returns to uploader.py:92 and the for loop moves on; after
\* the last segment, uploader.py:94-97
Returns(c, after) ==
    /\ call' = [c EXCEPT !.existsAtReturn = c.seg \in after]
    /\ idx' = idx + 1
    /\ pc' = IF idx + 1 > Len(segments) THEN "sleep" ELSE "call"
    /\ lastCycle' = IF idx + 1 > Len(segments) THEN "ok" ELSE lastCycle
    /\ UNCHANGED exit

\* faulty variant: the age test is made again at the call, and a segment
\* that is no longer older than 300 seconds is passed over
UploadStat_TestsAgeAgain ==
    /\ pc = "call"
    /\ LET seg == segments[idx] IN
       /\ attempts' = [attempts EXCEPT ![seg] = @ + 1]
       /\ IF seg \in files /\ IsComplete(mtime[seg], now)
          THEN /\ call' = [NoCall EXCEPT !.seg = seg, !.statMtime = mtime[seg],
                                         !.key = s3_key(seg, mtime[seg], now),
                                         !.result = "pending"]
               /\ pc' = "put"
               /\ UNCHANGED <<idx, exit, lastCycle>>
          ELSE IF seg \in files
          THEN Returns([NoCall EXCEPT !.seg = seg, !.statMtime = mtime[seg],
                                      !.result = "false",
                                      !.outcome = "not_complete"], files)
          ELSE /\ call' = [NoCall EXCEPT !.seg = seg, !.result = "raised",
                                         !.outcome = "stat_missing"]
               /\ EscapesToLoop("FileNotFoundError")
               /\ UNCHANGED idx
    /\ UNCHANGED <<now, disk, rootOk, remote, config, aside, segments,
                   atScan, scanned, unlinked, scanTime, lastSleep,
                   prevCycle, cycles, failed, envEvents>>

\* uploader.py:92 and 55-60: the call, stat() outside the try
UploadStat ==
    /\ pc = "call"
    /\ LET seg == segments[idx] IN
       /\ attempts' = [attempts EXCEPT ![seg] = @ + 1]
       /\ IF seg \in files
          THEN /\ call' = [NoCall EXCEPT !.seg = seg, !.statMtime = mtime[seg],
                                         !.key = s3_key(seg, mtime[seg], now),
                                         !.result = "pending"]
               /\ pc' = "put"
               /\ UNCHANGED <<exit, lastCycle>>
          ELSE /\ call' = [NoCall EXCEPT !.seg = seg, !.result = "raised",
                                         !.outcome = "stat_missing"]
               /\ EscapesToLoop("FileNotFoundError")
    /\ UNCHANGED <<now, disk, rootOk, remote, config, aside, segments, idx,
                   atScan, scanned, unlinked, scanTime, lastSleep,
                   prevCycle, cycles, failed, envEvents>>

\* faulty variant: the file is removed whatever delete_after_upload says
AfterAck_AlwaysDeletes(c) ==
    /\ call' = c
    /\ pc' = "unlink"
    /\ UNCHANGED <<idx, exit, lastCycle>>

\* uploader.py:73: after the acknowledgment
AfterAck(c) ==
    IF delete_after_upload
    THEN /\ call' = c
         /\ pc' = "unlink"
         /\ UNCHANGED <<idx, exit, lastCycle>>
    ELSE Returns([c EXCEPT !.result = "true"], files)

\* uploader.py:65-71 and 77: the store acknowledges the upload.  The upload
\* reads the file as it completes, so the file is on disk at this step.
PutAck ==
    /\ pc = "put"
    /\ call.seg \in files
    /\ remote' = remote \cup {call.seg}
    /\ failed' = failed \ {call.seg}
    /\ AfterAck([call EXCEPT !.acked = TRUE, !.outcome = "acked"])
    /\ UNCHANGED <<now, disk, rootOk, config, aside, segments, cycleHist,
                   unlinked, lastSleep, envEvents>>

\* failed, after the store refused the segment of the current call
RefusedComplete ==
    IF now - mtime[call.seg] > COMPLETENESS_THRESHOLD
    THEN failed \cup {call.seg}
    ELSE failed \ {call.seg}

\* faulty variant: the removal is reached after a failed upload too
PutStoreError_ThenUnlink ==
    /\ pc = "put"
    /\ call.seg \in files
    /\ failed' = RefusedComplete
    /\ call' = [call EXCEPT !.outcome = "store_error"]
    /\ pc' = "unlink"
    /\ UNCHANGED <<now, disk, rootOk, remote, config, aside, segments, idx, exit,
                   cycleHist, unlinked, lastSleep, lastCycle, envEvents>>

\* faulty variant: the store's error is not caught in upload_file
PutStoreError_Raises ==
    /\ pc = "put"
    /\ call.seg \in files
    /\ failed' = RefusedComplete
    /\ call' = [call EXCEPT !.result = "raised", !.outcome = "store_error",
                            !.existsAtReturn = TRUE]
    /\ EscapesToLoop("ClientError")
    /\ UNCHANGED <<now, disk, rootOk, remote, config, aside, segments, idx,
                   cycleHist, unlinked, lastSleep, envEvents>>

\* uploader.py:65 and 79-81: the store (or the network, or the
\* credentials) fails the upload
PutStoreError ==
    /\ pc = "put"
    /\ call.seg \in files
    /\ failed' = RefusedComplete
    /\ Returns([call EXCEPT !.result = "false", !.outcome = "store_error"],
               files)
    /\ UNCHANGED <<now, disk, rootOk, remote, config, aside, segments, cycleHist,
                   unlinked, lastSleep, envEvents>>

\* uploader.py:65 and 79-81: the local file cannot be opened any more
PutMissing ==
    /\ pc = "put"
    /\ call.seg \notin files
    /\ failed' = failed \ {call.seg}
    /\ Returns([call EXCEPT !.result = "false", !.outcome = "put_missing"],
               files)
    /\ UNCHANGED <<now, disk, rootOk, remote, config, aside, segments, cycleHist,
                   unlinked, lastSleep, envEvents>>

\* faulty variant: the removal takes the other segments of the camera along
UnlinkOk_TakesSiblings ==
    /\ pc = "unlink"
    /\ call.seg \in files
    /\ files' = files \ {f \in Segs : Parent(f) = Parent(call.seg)}
    /\ mtime' = [f \in AllFiles |-> IF f \in files' THEN mtime[f] ELSE 0]
    /\ unlinked' = unlinked \cup {call.seg}
    /\ Returns([call EXCEPT !.result = "true", !.unlinked = TRUE],
               files \ {call.seg})
    /\ UNCHANGED <<now, rootOk, remote, config, aside, segments, cycleHist,
                   lastSleep, failed, envEvents>>

\* uploader.py:74-77: unlink() succeeds
UnlinkOk ==
    /\ pc = "unlink"
    /\ call.seg \in files
    /\ files' = files \ {call.seg}
    /\ mtime' = [mtime EXCEPT ![call.seg] = 0]
    /\ unlinked' = unlinked \cup {call.seg}
    /\ Returns([call EXCEPT !.result = "true", !.unlinked = TRUE],
               files \ {call.seg})
    /\ UNCHANGED <<now, rootOk, remote, config, aside, segments, cycleHist,
                   lastSleep, failed, envEvents>>

\* uploader.py:74 and 79-81: unlink() raises, the file is already gone
\* (FileNotFoundError) or may not be removed (PermissionError)
UnlinkFails ==
    /\ pc = "unlink"
    /\ Returns([call EXCEPT !.result = "false",
                            !.outcome = IF call.seg \in files
                                        THEN "unlink_denied"
                                        ELSE "unlink_missing"],
               files)
    /\ UNCHANGED <<now, disk, rootOk, remote, config, aside, segments, cycleHist,
                   unlinked, lastSleep, failed, envEvents>>

\* the history of a cycle is kept until the sleep that follows it ends
ForgetCycle ==
    /\ call' = NoCall
    /\ atScan' = NotScanned
    /\ scanned' = FALSE
    /\ attempts' = NoAttempts
    /\ unlinked' = {}

\* uploader.py:97: time.sleep(self.check_interval) returns
Wake ==
    /\ pc = "sleep"
    /\ cycles < MaxCycles
    /\ now' = now + check_interval
    /\ lastSleep' = check_interval
    /\ pc' = "scan"
    /\ ForgetCycle
    /\ UNCHANGED <<disk, rootOk, remote, config, aside, segments, idx, exit,
                   scanTime, prevCycle, cycles, lastCycle, failed, envEvents>>

\* faulty variant: the back-off is followed by the interval sleep
BackoffWake_ThenInterval ==
    /\ pc = "backoff"
    /\ cycles < MaxCycles
    /\ now' = now + BACKOFF_SECONDS + check_interval
    /\ lastSleep' = BACKOFF_SECONDS + check_interval
    /\ pc' = "scan"
    /\ ForgetCycle
    /\ UNCHANGED <<disk, rootOk, remote, config, aside, segments, idx, exit,
                   scanTime, prevCycle, cycles, lastCycle, failed, envEvents>>

\* uploader.py:104: time.sleep(60) returns
BackoffWake ==
    /\ pc = "backoff"
    /\ cycles < MaxCycles
    /\ now' = now + BACKOFF_SECONDS
    /\ lastSleep' = BACKOFF_SECONDS
    /\ pc' = "scan"
    /\ ForgetCycle
    /\ UNCHANGED <<disk, rootOk, remote, config, aside, segments, idx, exit,
                   scanTime, prevCycle, cycles, lastCycle, failed, envEvents>>

\* SIGINT: KeyboardInterrupt is raised wherever the main thread is.  Inside
\* upload_file's try it passes `except Exception` (uploader.py:79); inside
\* the try of run_continuous it is caught at uploader.py:99; inside the
\* handler at uploader.py:102-104 nothing catches it.
Interrupt ==
    /\ pc \notin {"start", "failed", "stopped"}
    /\ IF pc = "backoff"
       THEN /\ pc' = "stopped"
            /\ exit' = [how |-> "raised", cause |-> "KeyboardInterrupt",
                        at |-> pc]
            /\ UNCHANGED lastCycle
       ELSE EscapesToLoop("KeyboardInterrupt")
    /\ call' = IF pc \in {"put", "unlink"}
               THEN [call EXCEPT !.result = "raised",
                                 !.existsAtReturn = call.seg \in files]
               ELSE call
    /\ UNCHANGED <<now, disk, rootOk, remote, config, aside, segments, idx,
                   cycleHist, unlinked, lastSleep, failed, envEvents>>

(***************************************************************************)
(* The environment.                                                        *)
(***************************************************************************)
\* a second passes while an upload is in flight
Tick ==
    /\ pc = "put"
    /\ envEvents < MaxEnvEvents
    /\ envEvents' = envEvents + 1
    /\ now' = now + 1
    /\ UNCHANGED <<disk, rootOk, remote, config, aside, pc, segments, idx, call,
                   exit, cycleHist, unlinked, lastSleep, lastCycle, failed>>

EnvStep ==
    /\ pc \notin {"start", "failed", "stopped"}
    /\ envEvents < MaxEnvEvents
    /\ envEvents' = envEvents + 1
    /\ UNCHANGED <<now, remote, config, aside, pc, segments, idx, call, exit,
                   cycleHist, unlinked, lastSleep, lastCycle>>

\* the recorder creates a segment or writes to it: ffmpeg names a segment
\* by the time it starts it (generate_services.py:37), so it writes to the
\* last segment of a camera or starts a later one
RecorderWrite ==
    /\ EnvStep
    /\ \E f \in Segs :
         /\ \A g \in files \cap Segs :
              Parent(g) = Parent(f) => ~NameLess(BaseName(f), BaseName(g))
         /\ files' = files \cup {f}
         /\ mtime' = [mtime EXCEPT ![f] = now]
         /\ failed' = failed \ {f}
    /\ UNCHANGED rootOk

\* another process removes a segment (while the loop sleeps this is the
\* same as just before the scan)
Vanish ==
    /\ EnvStep
    /\ pc \notin {"sleep", "backoff"}
    /\ \E f \in files \cap Segs :
         /\ files' = files \ {f}
         /\ mtime' = [mtime EXCEPT ![f] = 0]
         /\ failed' = failed \ {f}
    /\ UNCHANGED rootOk

\* the storage root becomes unreadable.  Only the scan reads the root
\* (uploader.py:40), so only what it is when a scan is due matters.
RootFails ==
    /\ EnvStep
    /\ pc = "scan"
    /\ rootOk
    /\ rootOk' = FALSE
    /\ UNCHANGED <<disk, failed>>

\* the storage root is readable again
RootRecovers ==
    /\ ~rootOk
    /\ pc \in {"scan", "backoff"}
    /\ rootOk' = TRUE
    /\ UNCHANGED <<now, disk, remote, config, aside, pc, segments, idx, call, exit,
                   cycleHist, unlinked, lastSleep, lastCycle, failed, envEvents>>

Next ==
    \/ Construct
    \/ Scan
    \/ ScanRace
    \/ UploadStat
    \/ PutAck
    \/ PutStoreError
    \/ PutMissing
    \/ UnlinkOk
    \/ UnlinkFails
    \/ Wake
    \/ BackoffWake
    \/ Interrupt
    \/ Tick
    \/ RecorderWrite
    \/ Vanish
    \/ RootFails
    \/ RootRecovers

Spec == Init /\ [][Next]_vars

(***************************************************************************)
(* The remote key on its own: upload_file followed from its call to the    *)
(* key of uploader.py:60, twice, on any two files at any two times.        *)
(***************************************************************************)
\* st_mtime values: 2024-01-15 11:00 and 12:00, 2023-12-31 23:59:59,
\* 2024-01-01 00:00:00 and 2024-02-29 12:00 in the zone of the process
KeyTimes == {1705312800, 1705316400, 1704063599, 1704063600, 1709204400}
\* how long after st_mtime the call is made
KeyDelays == {COMPLETENESS_THRESHOLD + 1, 86400}

\* the poll loop is not running
UploaderIdle ==
    /\ now = StartTime
    /\ files = OtherFiles
    /\ mtime = [f \in AllFiles |-> IF f \in OtherFiles THEN OldTime ELSE 0]
    /\ rootOk = TRUE
    /\ remote = {}
    /\ startup = "ok"
    /\ delete_after_upload = FALSE
    /\ check_interval \in CheckIntervals
    /\ pc = "idle"
    /\ segments = <<>>
    /\ idx = 1
    /\ call = NoCall
    /\ exit = [how |-> "running", cause |-> "none", at |-> "none"]
    /\ atScan = NotScanned
    /\ scanned = FALSE
    /\ attempts = NoAttempts
    /\ unlinked = {}
    /\ scanTime = StartTime
    /\ lastSleep = 0
    /\ lastCycle = "none"
    /\ prevCycle = "none"
    /\ cycles = 0
    /\ failed = {}
    /\ envEvents = 0

uploaderVars == <<now, files, mtime, rootOk, remote, startup, delete_after_upload,
                  check_interval, pc, segments, idx, call, exit, atScan,
                  scanned, attempts, unlinked, scanTime, lastSleep, lastCycle,
                  prevCycle, cycles, failed, envEvents>>

KeyInit ==
    /\ UploaderIdle
    /\ GenIdle
    /\ keyCalls \in [1..2 -> [local_file : Segs, st_mtime : KeyTimes,
                               delay : KeyDelays, s3_key : {<<>>}]]

\* uploader.py:55-60 in call i
KeyCall(i) ==
    /\ keyCalls[i].s3_key = <<>>
    /\ keyCalls' = [keyCalls EXCEPT ![i].s3_key =
                       s3_key(keyCalls[i].local_file, keyCalls[i].st_mtime,
                              keyCalls[i].st_mtime + keyCalls[i].delay)]
    /\ UNCHANGED <<uploaderVars, genVars>>

KeyFirst == KeyCall(1)

KeySecond ==
    /\ keyCalls[1].s3_key # <<>>
    /\ KeyCall(2)

KeyNext ==
    \/ KeyFirst
    \/ KeySecond

KeySpec == KeyInit /\ [][KeyNext]_vars

(***************************************************************************)
(* generate_services, generate_services.py:8-67.                           *)
(***************************************************************************)
\* cameras a configuration lists at most
MaxCameras == 2

CamB == <<"b">>
CameraNames == {CamA, CamAB, CamB}
\* the `enabled` key of a camera: true, false, or not there
EnabledKeys == {"true", "false", "absent"}

\* lists of cameras, no name twice
CameraLists ==
    UNION {{c \in [1..n -> [name : CameraNames, enabled : EnabledKeys]] :
               \A i, j \in 1..n : i # j => c[i].name # c[j].name} :
           n \in 0..MaxCameras}

\* f"camera-recorder-{name}.service", generate_services.py:52
ServiceFile(name) ==
    <<"c", "a", "m", "e", "r", "a", "-", "r", "e", "c", "o", "r", "d", "e", "r", "-">>
        \o name \o <<".", "s", "e", "r", "v", "i", "c", "e">>

\* faulty variant: a camera without the key counts as enabled
GetEnabled_DefaultTrue(camera) == camera.enabled # "false"

\* camera.get('enabled', False), generate_services.py:22
GetEnabled(camera) ==
    IF camera.enabled = "absent" THEN FALSE ELSE camera.enabled = "true"

GenInit ==
    /\ UploaderIdle
    /\ keyCalls = <<>>
    /\ config_exists \in BOOLEAN
    /\ cameras \in IF config_exists THEN CameraLists ELSE {<<>>}
    /\ gen_pc = "start"
    /\ camera_i = 1
    /\ service_dir = {}
    /\ generated_services = <<>>
    /\ exit_status = <<>>

\* generate_services.py:11-19
GenOpen ==
    /\ gen_pc = "start"
    /\ IF ~config_exists
       THEN /\ gen_pc' = "exited"
            /\ exit_status' = <<1>>
       ELSE /\ gen_pc' = "loop"
            /\ UNCHANGED exit_status
    /\ UNCHANGED <<uploaderVars, keyCalls, config_exists, cameras, camera_i,
                   service_dir, generated_services>>

\* generate_services.py:21-58: one camera of the for loop
GenCamera ==
    /\ gen_pc = "loop"
    /\ camera_i <= Len(cameras)
    /\ LET camera == cameras[camera_i] IN
       IF ~GetEnabled(camera)
       THEN UNCHANGED <<service_dir, generated_services>>
       ELSE /\ service_dir' = service_dir \cup {ServiceFile(camera.name)}
            /\ generated_services' =
                 Append(generated_services, ServiceFile(camera.name))
    /\ camera_i' = camera_i + 1
    /\ UNCHANGED <<uploaderVars, keyCalls, config_exists, cameras, gen_pc,
                   exit_status>>

\* generate_services.py:60-67: the loop is over, the function returns
GenReport ==
    /\ gen_pc = "loop"
    /\ camera_i > Len(cameras)
    /\ gen_pc' = "done"
    /\ exit_status' = <<0>>
    /\ UNCHANGED <<uploaderVars, keyCalls, config_exists, cameras, camera_i,
                   service_dir, generated_services>>

GenNext ==
    \/ GenOpen
    \/ GenCamera
    \/ GenReport

GenSpec == GenInit /\ [][GenNext]_vars

(***************************************************************************)
(* Properties.                                                             *)
(***************************************************************************)
Returned == call.result \in {"true", "false"}
CompleteAtScan == {f \in Segs : atScan[f] = "complete"}
CycleDone == pc = "sleep" /\ lastCycle = "ok" /\ scanned

\* C1: a file upload_file has removed was acknowledged by the store earlier
\* in the same call: the removal never comes before the acknowledgment,
\* never after a failed upload, never while the upload is in flight.
C1_DeleteOnlyAfterAck ==
    /\ call.unlinked => call.acked /\ call.seg \in remote
    /\ call.outcome \in {"store_error", "put_missing", "stat_missing"}
          => ~call.unlinked /\ call.seg \notin unlinked
    /\ pc = "put" => ~call.unlinked /\ call.seg \notin unlinked
    /\ unlinked \subseteq remote

C1_Witness ==
    /\ call.unlinked
    /\ call.result = "true"
    /\ call.seg \notin files
    /\ call.seg \in remote

\* C2: when the store fails the upload, upload_file returns false, the
\* local file is still there and nothing is raised, whether or not
\* delete_after_upload is set.
C2_StoreErrorKeepsFile ==
    call.outcome = "store_error"
        => /\ call.result = "false"
           /\ call.existsAtReturn
           /\ ~call.unlinked
           /\ pc \in {"call", "sleep", "stopped"}
           /\ pc = "sleep" => lastCycle = "ok"

C2_Witness ==
    /\ call.outcome = "store_error"
    /\ call.result = "false"
    /\ call.existsAtReturn
    /\ delete_after_upload
    /\ pc = "call"

\* C3 (as claimed): a segment that is gone when upload_file is called, or
\* goes during the call, makes upload_file return false without raising, and
\* the cycle goes on with the remaining segments.
C3_VanishedIsFailure ==
    call.outcome \in {"stat_missing", "put_missing"}
        => /\ call.result = "false"
           /\ pc \in {"call", "sleep", "stopped"}

\* C4 (as claimed): when a cycle is over, every segment its scan found has
\* been attempted, whatever happened to the others.
C4_AllAttempted ==
    (scanned /\ pc \in {"sleep", "backoff"})
        => \A i \in 1..Len(segments) : attempts[segments[i]] >= 1

\* C5 (as claimed): after upload_file returns following an acknowledged
\* upload, the file is gone if delete_after_upload is set and still there
\* if it is not.
C5_Original ==
    (Returned /\ call.acked)
        => (call.existsAtReturn <=> ~delete_after_upload)

\* C5 (amended): after upload_file returns following an acknowledged upload,
\* the file is still there if delete_after_upload is not set; if it is set
\* the file is gone, unless unlink() itself failed with the file in place,
\* and then upload_file returns false.
C5_DeletedUnlessUnlinkDenied ==
    (Returned /\ call.acked)
        => /\ ~delete_after_upload => call.existsAtReturn /\ ~call.unlinked
           /\ delete_after_upload
                => (call.existsAtReturn <=> call.outcome = "unlink_denied")
           /\ call.outcome = "unlink_denied" => call.result = "false"
           /\ call.result = "true" /\ delete_after_upload => call.unlinked

C5_Witness ==
    /\ Returned
    /\ call.acked
    /\ delete_after_upload
    /\ call.result = "true"
    /\ ~call.existsAtReturn

\* C6 (as claimed): upload_file returns true exactly when the store
\* acknowledged the upload in that call, whatever the removal does.
C6_TrueIffAcked ==
    Returned => (call.result = "true" <=> call.acked)

\* C7: the scan returns a video exactly when now - mtime > 300 at the scan:
\* one that is 300 seconds old or younger is left out, every other .mp4
\* directly in a camera directory is returned.
C7_ScanByAge ==
    scanned
        => /\ \A f \in Segs : (\E i \in 1..Len(segments) : segments[i] = f)
                                 <=> atScan[f] = "complete"
           /\ \A i \in 1..Len(segments) : segments[i] \in Segs

C7_Witness ==
    /\ scanned
    /\ \E f \in Segs : atScan[f] = "threshold" /\ f \notin Range(segments)
    /\ \E f \in Segs : atScan[f] = "complete" /\ f \in Range(segments)
    /\ \E f \in Segs : atScan[f] = "young" /\ f \notin Range(segments)

\* C8: a full cycle attempts exactly the segments complete at its scan, each
\* once; a segment not complete at the scan is neither uploaded nor removed
\* in that cycle, in whatever order the directories were listed.
C8_ExactlyTheComplete ==
    /\ CycleDone
         => \A f \in AllFiles :
              attempts[f] = IF f \in CompleteAtScan THEN 1 ELSE 0
    /\ scanned
         => /\ \A f \in AllFiles :
                 /\ attempts[f] <= 1
                 /\ attempts[f] = 1 => f \in CompleteAtScan
            /\ unlinked \subseteq CompleteAtScan
            /\ pc \in {"put", "unlink"} => call.seg \in CompleteAtScan

C8_Witness ==
    /\ CycleDone
    /\ Cardinality(CompleteAtScan) = 2
    /\ \E f \in Segs : /\ atScan[f] \in {"young", "threshold"}
                       /\ f \in files
                       /\ attempts[f] = 0
    /\ \A f \in CompleteAtScan : attempts[f] = 1

\* C9: no exception raised by a scan or an upload ends run_continuous: it is
\* caught at the loop and the loop goes on; only an operator interrupt ends
\* the loop.
C9_OnlyInterruptStops ==
    /\ pc = "stopped" <=> exit.how # "running"
    /\ pc = "stopped" => exit.cause = "KeyboardInterrupt"
    /\ lastCycle = "aborted" => pc # "stopped" \/ exit.cause = "KeyboardInterrupt"
    /\ (lastCycle = "aborted" /\ exit.how = "running")
          => /\ pc \in {"backoff", "scan", "call", "put", "unlink"}
             /\ exit.cause \in {"OSError", "FileNotFoundError"}

C9_Witness ==
    /\ prevCycle = "aborted"
    /\ pc = "put"
    /\ exit.how = "running"
    /\ exit.cause = "FileNotFoundError"
    /\ call.seg \in files

\* the list a scan of the disk as it was at the last scan returns
ExpectedSegments ==
    CHOOSE s \in Enumerations(CompleteAtScan) :
        \A i \in 1..(Len(s) - 1) : PathLess(s[i], s[i + 1])

\* C10: a cycle that an environment error aborted poisons nothing: after the
\* 60-second back-off a fresh cycle starts, and with the environment back it
\* scans and uploads every complete segment as a cycle after no failure.
C10_NoPoisonedState ==
    (prevCycle = "aborted" /\ pc \in {"call", "put", "unlink", "sleep", "backoff"})
        => /\ lastSleep = 60
           /\ scanned
                => /\ segments = ExpectedSegments
                   /\ pc \in {"call", "put", "unlink"}
                        => /\ idx \in 1..Len(segments)
                           /\ \A i \in 1..Len(segments) :
                                attempts[segments[i]] = IF i < idx THEN 1
                                                        ELSE IF i > idx THEN 0
                                                        ELSE IF pc = "call" THEN 0 ELSE 1
                   /\ CycleDone
                        => \A f \in AllFiles :
                             attempts[f] = IF f \in CompleteAtScan THEN 1 ELSE 0

C10_Witness ==
    /\ prevCycle = "aborted"
    /\ exit.how = "running"
    /\ exit.cause = "OSError"
    /\ rootOk
    /\ CycleDone
    /\ CompleteAtScan # {}
    /\ CompleteAtScan \subseteq remote
    /\ lastSleep = 60

\* C11 (as claimed): an interrupt ends the loop between cycles only: no
\* upload_file call is cut short, run_continuous is never ended while a
\* call is in flight.
C11_StopsBetweenUploads ==
    pc = "stopped" => exit.at \notin {"put", "unlink"}

\* C12 (as claimed): interrupted in any state (the normal sleep, a scan, an
\* upload, the 60-second back-off), run_continuous ends by returning
\* normally, and no segment has been removed that the store did not
\* acknowledge.
C12_InterruptReturnsNormally ==
    pc = "stopped"
        => /\ exit.cause = "KeyboardInterrupt"
           /\ exit.how = "returned"
           /\ unlinked \subseteq remote

\* C13 (as claimed): a segment the store refused in one cycle, left alone on
\* disk since, is in the list the next scan returns and is attempted again
\* in that cycle: when a cycle whose scan returned is over, every such
\* segment has had its upload_file call in it.
C13_RetriedNextCycle ==
    /\ scanned => \A f \in failed : f \in Range(segments)
    /\ (scanned /\ pc \in {"sleep", "backoff"})
          => \A f \in failed : attempts[f] >= 1

\* the date the key of a file modified at st_mtime carries, read off a
\* calendar for the zone of the process
CalendarDate(st_mtime) ==
    CASE st_mtime \in {1705312800, 1705316400}
           -> <<"2", "0", "2", "4", "/", "0", "1", "/", "1", "5">>
      [] st_mtime = 1704063599
           -> <<"2", "0", "2", "3", "/", "1", "2", "/", "3", "1">>
      [] st_mtime = 1704063600
           -> <<"2", "0", "2", "4", "/", "0", "1", "/", "0", "1">>
      [] st_mtime = 1709204400
           -> <<"2", "0", "2", "4", "/", "0", "2", "/", "2", "9">>

KeyDone(i) == keyCalls[i].s3_key # <<>>

\* C14: the key is camera/YYYY/MM/DD/filename, the date that of the file's
\* modification time with month and day zero-padded, and depends on nothing
\* but camera, filename and that date: two calls for the same segment with
\* the same mtime, or with mtimes of the same day, get the same key whenever
\* they are made.
C14_KeyIsPure ==
    /\ \A i \in 1..2 :
         KeyDone(i)
            => keyCalls[i].s3_key
                 = keyCalls[i].local_file[1] \o <<"/">>
                     \o CalendarDate(keyCalls[i].st_mtime) \o <<"/">>
                     \o keyCalls[i].local_file[2]
    /\ (KeyDone(1) /\ KeyDone(2)
          /\ keyCalls[1].local_file = keyCalls[2].local_file
          /\ CalendarDate(keyCalls[1].st_mtime) = CalendarDate(keyCalls[2].st_mtime))
         => keyCalls[1].s3_key = keyCalls[2].s3_key

C14_Witness ==
    /\ KeyDone(1) /\ KeyDone(2)
    /\ keyCalls[1].local_file = keyCalls[2].local_file
    /\ keyCalls[1].st_mtime = keyCalls[2].st_mtime
    /\ keyCalls[1].st_mtime = 1704063599
    /\ keyCalls[1].delay # keyCalls[2].delay
    /\ keyCalls[1].s3_key = keyCalls[2].s3_key

\* C15: two different segments (camera, filename) never get the same key,
\* whatever their modification times.
C15_KeysCollisionFree ==
    (KeyDone(1) /\ KeyDone(2) /\ keyCalls[1].local_file # keyCalls[2].local_file)
        => keyCalls[1].s3_key # keyCalls[2].s3_key

C15_Witness ==
    /\ KeyDone(1) /\ KeyDone(2)
    /\ keyCalls[1].local_file = <<CamA, Seg1>>
    /\ keyCalls[2].local_file = <<CamAB, Seg1>>
    /\ keyCalls[1].st_mtime = keyCalls[2].st_mtime
    /\ keyCalls[1].s3_key # keyCalls[2].s3_key

C17_StartupFailureIsFatal ==
    /\ startup # "ok"
         => /\ pc \in {"start", "failed"}
            /\ cycles = 0
            /\ ~scanned
            /\ attempts = NoAttempts
            /\ call = NoCall
            /\ remote = {}
            /\ unlinked = {}
            /\ exit.how = "running"
    /\ pc = "failed" => startup # "ok"

C17_Witness ==
    /\ pc = "failed"
    /\ startup = "no_option"
    /\ \E f \in files \cap Segs : now - mtime[f] > 300
    /\ delete_after_upload

\* the cameras of the configuration with enabled: true
EnabledCameras == {i \in 1..Len(cameras) : cameras[i].enabled = "true"}

\* C18: when generate_services is done, service_dir holds one file
\* camera-recorder-<name>.service for each camera with enabled: true,
\* written once, and no file for a camera with enabled: false or without
\* the key; without a configuration file it exits with status 1 and writes
\* nothing.
C18_OneServicePerEnabledCamera ==
    /\ gen_pc = "done"
         => /\ config_exists
            /\ service_dir = {ServiceFile(cameras[i].name) : i \in EnabledCameras}
            /\ Cardinality(service_dir) = Cardinality(EnabledCameras)
            /\ Len(generated_services) = Cardinality(EnabledCameras)
            /\ \A i \in 1..Len(cameras) :
                 i \notin EnabledCameras
                    => ServiceFile(cameras[i].name) \notin service_dir
    /\ ~config_exists
         => /\ service_dir = {}
            /\ gen_pc \in {"start", "exited"}
            /\ gen_pc = "exited" => exit_status = <<1>>
    /\ gen_pc = "exited" => ~config_exists
    /\ gen_pc \in {"start", "loop"} => exit_status = <<>>

C18_Witness ==
    /\ gen_pc = "done"
    /\ Len(cameras) = 2
    /\ cameras[1].enabled = "absent"
    /\ cameras[2].enabled = "true"
    /\ service_dir = {ServiceFile(cameras[2].name)}

\* C19 (as claimed): the list a scan returns is in the lexicographic order
\* of the full paths, compared as strings.
C19_Original ==
    scanned
        => \A i \in 1..(Len(segments) - 1) :
             NameLess(JoinPath(segments[i]), JoinPath(segments[i + 1]))

\* C19 (amended): the list a scan returns is ordered by camera directory
\* name and, within a camera, by filename, each compared as a string; the
\* upload_file calls of the cycle are made in the order of the list, one
\* segment after the other.
C19_SortedByCameraThenFile ==
    scanned
        => /\ \A i \in 1..(Len(segments) - 1) :
                LET p == segments[i]
                    q == segments[i + 1]
                IN  \/ NameLess(p[1], q[1])
                    \/ p[1] = q[1] /\ NameLess(p[2], q[2])
           /\ pc \in {"call", "put", "unlink"}
                => /\ idx \in 1..Len(segments)
                   /\ \A i \in 1..Len(segments) :
                        attempts[segments[i]] = IF i < idx THEN 1
                                                ELSE IF i > idx THEN 0
                                                ELSE IF pc = "call" THEN 0 ELSE 1
                   /\ pc \in {"put", "unlink"} => call.seg = segments[idx]

C19_Witness ==
    /\ scanned
    /\ segments = <<<<CamA, Seg1>>, <<CamA, Seg2>>, <<CamAB, Seg1>>>>
    /\ pc = "put"
    /\ idx = 3
    /\ call.seg = <<CamAB, Seg1>>

\* C20: a step of the uploader (any step that is not the environment's)
\* leaves the files and their mtimes as they are, but for one case: in
\* upload_file, after the store acknowledged the segment of the call, that
\* segment and no other file is removed.  A scan changes nothing.
C20_OnlyRemovesItsSegment ==
    [][envEvents' = envEvents
          => \/ disk' = disk
             \/ /\ pc = "unlink"
                /\ call.acked
                /\ call.seg \in remote
                /\ files' = files \ {call.seg}
                /\ \A f \in AllFiles \ {call.seg} : mtime'[f] = mtime[f]]_vars

C20_Witness ==
    /\ envEvents = 0
    /\ call.unlinked
    /\ unlinked = {<<CamA, Seg1>>}
    /\ <<CamA, Seg2>> \in files
    /\ OtherFiles \subseteq files
    /\ pc = "call"

\* C21: one thing at a time.  An upload is in flight exactly while the loop
\* is inside upload_file; when the loop is about to call upload_file the
\* scan of the cycle has returned and the call before it, removal included,
\* has returned; when the loop is about to scan or sleeps no call is in
\* flight, and a scan after the first comes after a sleep.
C21_OneAtATime ==
    /\ call.result = "pending" <=> pc \in {"put", "unlink"}
    /\ pc \in {"call", "put", "unlink"}
         => /\ scanned
            /\ idx \in 1..Len(segments)
    /\ pc = "call"
         => /\ idx = 1 => call = NoCall
            /\ idx > 1 => /\ call.seg = segments[idx - 1]
                          /\ call.result \in {"true", "false"}
    /\ pc \in {"put", "unlink"} => call.seg = segments[idx]
    /\ pc = "unlink" => call.acked
    /\ pc = "scan"
         => /\ call = NoCall
            /\ ~scanned
            /\ attempts = NoAttempts
            /\ cycles > 0 => lastSleep \in {check_interval, BACKOFF_SECONDS}
    /\ pc \in {"sleep", "backoff"} => call.result # "pending"

C21_Witness ==
    /\ pc = "put"
    /\ idx = 2
    /\ call.result = "pending"
    /\ call.seg = segments[2]
    /\ segments[1] \in unlinked
    /\ cycles = 2

\* C22: the loop sleeps check_interval after a cycle that no exception
\* ended and the 60-second back-off, alone, after a cycle an exception
\* ended; a scan after the first starts only when that sleep has passed
\* since the cycle before it.
C22_SleepBetweenCycles ==
    /\ pc = "sleep" => lastCycle = "ok"
    /\ pc = "backoff" => lastCycle = "aborted"
    /\ (pc = "scan" /\ cycles > 0)
         => LET slept == now - scanTime IN
            /\ lastCycle \in {"ok", "aborted"}
            /\ lastCycle = "ok"
                 => /\ lastSleep = check_interval
                    /\ slept >= check_interval
                    /\ slept <= check_interval + envEvents
            /\ lastCycle = "aborted"
                 => /\ lastSleep = 60
                    /\ slept >= 60
                    /\ slept <= 60 + envEvents
    /\ (cycles > 1 /\ pc \in {"call", "put", "unlink", "sleep", "backoff"})
         => /\ prevCycle \in {"ok", "aborted"}
            /\ lastSleep = IF prevCycle = "ok" THEN check_interval ELSE 60
    /\ (cycles = 1 /\ pc \in {"call", "put", "unlink", "sleep", "backoff"})
         => lastSleep = 0

C22_Witness ==
    /\ pc = "scan"
    /\ cycles = 1
    /\ lastCycle = "aborted"
    /\ lastSleep = 60
    /\ now - scanTime = 60
    /\ check_interval = 300


\* C23 (as claimed): no record of past uploads is kept, so the list of a scan
\* is the complete segments of the disk at that scan whatever the store
\* already holds; and with delete_after_upload disabled, when a cycle whose
\* scan returned is over, every segment the store holds that the scan found
\* complete and that is still on disk has been uploaded again in that cycle.
C23_UploadedAgainEveryCycle ==
    /\ scanned => segments = ExpectedSegments
    /\ (~delete_after_upload /\ scanned /\ pc \in {"sleep", "backoff"})
          => \A f \in remote \cap CompleteAtScan \cap files : attempts[f] >= 1


\* C24: with the recorder writing while the uploader runs, every segment
\* put to the store or removed was found complete by the scan of the same
\* cycle, and its age is not looked at again: every call that found its file
\* goes to the store, so a file written to between the scan and its upload
\* is uploaded all the same and, with deletion enabled, removed.
C24_CompleteAtScanOnly ==
    /\ scanned
         => /\ unlinked \subseteq CompleteAtScan
            /\ call.seg # <<>> => call.seg \in CompleteAtScan
            /\ \A f \in Segs : attempts[f] > 0 => f \in CompleteAtScan
    /\ call.result = "pending" => pc \in {"put", "unlink", "stopped"}
    /\ Returned
         => call.outcome \in {"acked", "store_error", "put_missing",
                              "unlink_denied", "unlink_missing"}
    /\ call.unlinked => /\ call.acked
                        /\ delete_after_upload
                        /\ call.seg \in unlinked

C24_Witness ==
    /\ delete_after_upload
    /\ Returned
    /\ call.unlinked
    /\ call.seg \in unlinked
    /\ call.seg \in remote
    /\ atScan[call.seg] = "complete"
    /\ call.statMtime >= scanTime
    /\ now - call.statMtime <= COMPLETENESS_THRESHOLD

====
